---- MODULE Spec2Model ----
(***************************************************************************)
(* Model of ip.py: resolution of IP addresses to country codes             *)
(* (local GeoIP2 database, then ip-api.com with rate governance and        *)
(* retries), concurrent processing of the URL-sourced addresses and the    *)
(* writing of the per-country files and of ip.txt.                         *)
(*                                                                         *)
(* The specifications share the definitions:                               *)
(*   SpecApi  the thread-level view of get_country_code / wait_for_api as  *)
(*            run by the pool workers of batch_process_ips, with a clock;  *)
(*   SpecSeq  the same calls made one after the other by the main thread,  *)
(*            FairSeq with the thread never stopped for good;              *)
(*   Spec     the run of main(): domain path, URL path, shard files and    *)
(*            the combined file, each get_country_code call run to         *)
(*            completion in one step;                                      *)
(*   FairPool a batch of more addresses than the pool has threads;         *)
(*   SpecNorm normalize_ip, is_valid_ip and process_single_ip on one token.*)
(***************************************************************************)
EXTENDS Integers, Sequences, FiniteSets, TLC

\* ---------------------------------------------------------------- constants
MIN_INTERVAL == 1
MAX_RETRIES == 2
MAX_WORKERS == 5

\* ------------------------------------------------------------------- bounds
NumTasks == 2
MaxTime == 4
MaxUrlIps == 3
MaxDomainIps == 1

Tasks == 1..NumTasks

\* Normalized addresses handed to get_country_code.
IPs == {<<1, 1, 1, 1>>, <<1, 1, 2, 44>>, <<10, 0, 0, 1>>}

\* Country codes: ISO codes and the sentinel.
XX == "XX"
IsoCodes == {"US", "CN"}

\* Outcome of reader.country(ip).country.iso_code: a code, None, or an
\* exception (AddressNotFoundError).
LocalResults == IsoCodes \cup {"None", "Raise"}

\* The database of the run: one address it knows, one whose record has no
\* country, one it does not hold.
GeoDb == [a \in IPs |-> CASE a = <<1, 1, 1, 1>> -> "US"
                         [] a = <<1, 1, 2, 44>> -> "None"
                         [] OTHER -> "Raise"]

\* Outcomes of requests.get(...) followed by the reads of the response.
Resp(exc, status, body, cc) == [exc |-> exc, status |-> status, body |-> body, cc |-> cc]
RTimeout == Resp("Timeout", 0, "", "")
RConnError == Resp("Exception", 0, "", "")
R429 == Resp("", 429, "", "")
R500 == Resp("", 500, "", "")
REmpty == Resp("", 200, "empty", "")
RMalformed == Resp("", 200, "malformed", "")
RFail == Resp("", 200, "fail", "")
RNoCode == Resp("", 200, "success", "missing")
RSuccess(c) == Resp("", 200, "success", c)
Responses == {RTimeout, RConnError, R429, R500, REmpty, RMalformed, RFail, RNoCode}
             \cup {RSuccess(c) : c \in IsoCodes}

RECURSIVE Pow2(_)
Pow2(n) == IF n = 0 THEN 1 ELSE 2 * Pow2(n - 1)

VARIABLES
  caller,         \* who makes the calls: the pool threads or the main thread
  now,            \* time.time()
  LAST_API_CALL,  \* the module global
  tpc,            \* per task: position in get_country_code
  ip,             \* per task: the address being resolved
  retries,        \* per task: local variable retries
  current_time,   \* per task: local variable of wait_for_api
  wakeAt,         \* per task: end of the time.sleep in progress
  country_code,   \* per task: value returned by get_country_code
  ncalls,         \* per task: number of requests.get calls made
  dbq,            \* per task: number of reader.country calls made
  resps,          \* per running task: outcomes of its requests.get calls
  sleeps,         \* per running task: wait_time of its backoff sleeps
  returned,       \* the call that returned in the latest step, NoCall if none
  lastSent,       \* time at which the latest requests.get was issued, -1 if none
  minGap          \* smallest time between two requests.get so far, -1 if none

apiVars == <<caller, now, LAST_API_CALL, tpc, ip, retries, current_time, wakeAt,
             country_code, ncalls, dbq, resps, sleeps, returned, lastSent, minGap>>

VARIABLES
  has_domain,     \* TARGET_DOMAIN is set
  domain_ips,     \* addresses of the domains still to resolve, in loop order
  has_urls,       \* TARGET_URLS is set and names a URL
  all_ips,        \* read_ip_from_url: the set of tokens read from the URLs
  ports,          \* the port list
  mpc,            \* position of main
  files,          \* ip/<code>.txt: country code -> lines
  ipTxt,          \* ip/ip.txt: lines
  files0,         \* the files as the run found them
  d_results,      \* resolve_domain: results
  tstate,         \* per token: state of its task in the pool
  tcode,          \* per token: what get_country_code returned to its task, "" if nothing
  results,        \* batch_process_ips: results
  all_results     \* main: all_results

pipeVars == <<has_domain, domain_ips, has_urls, all_ips, ports, mpc, files, ipTxt,
              files0, d_results, tstate, tcode, results, all_results>>

VARIABLES
  n_ip,           \* the token given to normalize_ip, is_valid_ip, process_single_ip
  npc,            \* which of the three is called next
  n_normalized,   \* what normalize_ip returned
  n_valid,        \* what is_valid_ip returned
  n_results       \* what process_single_ip returned

normVars == <<n_ip, npc, n_normalized, n_valid, n_results>>

vars == <<apiVars, pipeVars, normVars>>

\* ------------------------------------------------- get_country_code, pieces

\* LocalLookup that goes on to the online query whatever the database says.
LocalLookup_IgnoreHit(d, a) == [found |-> FALSE, country_code |-> ""]

\* Lines 132-139: the database query; a code ends the call, None or an
\* exception falls through to the online query.
LocalLookup(d, a) ==
  IF a \notin DOMAIN d \/ d[a] = "Raise" THEN [found |-> FALSE, country_code |-> ""]
  ELSE IF d[a] # "None" THEN [found |-> TRUE, country_code |-> d[a]]
  ELSE [found |-> FALSE, country_code |-> ""]

Give(r, code) == [op |-> "return", retries |-> r, country_code |-> code, wait_time |-> 0]

\* HandleResponse that gives up at the first 429.
HandleResponse_NoRetry(r, resp) ==
  IF resp.exc = "" /\ resp.status = 200 /\ resp.body = "success" /\ resp.cc # "missing"
    THEN Give(r, resp.cc)
    ELSE Give(IF resp.exc = "" /\ resp.status = 429 THEN r + 1 ELSE r, XX)

\* HandleResponse that retries a timeout as it retries a 429.
HandleResponse_RetryTimeout(r, resp) ==
  IF resp.exc = "Timeout" \/ (resp.exc = "" /\ resp.status = 429)
    THEN IF r + 1 < MAX_RETRIES
           THEN [op |-> "continue", retries |-> r + 1, country_code |-> "",
                 wait_time |-> Pow2(r + 1) * MIN_INTERVAL]
           ELSE Give(r + 1, XX)
    ELSE IF resp.exc = "" /\ resp.status = 200 /\ resp.body = "success" /\ resp.cc # "missing"
      THEN Give(r, resp.cc)
      ELSE Give(r, XX)

\* HandleResponse that sleeps after every 429, the last allowed one included.
HandleResponse_SleepAtLast(r, resp) ==
  IF resp.exc = "" /\ resp.status = 429
    THEN [op |-> "continue", retries |-> r + 1, country_code |-> "",
          wait_time |-> Pow2(r + 1) * MIN_INTERVAL]
    ELSE IF resp.exc = "" /\ resp.status = 200 /\ resp.body = "success" /\ resp.cc # "missing"
      THEN Give(r, resp.cc)
      ELSE Give(r, XX)

\* HandleResponse that computes the wait from retries before its increment.
HandleResponse_WaitFromZero(r, resp) ==
  IF resp.exc = "" /\ resp.status = 429
    THEN IF r + 1 < MAX_RETRIES
           THEN [op |-> "continue", retries |-> r + 1, country_code |-> "",
                 wait_time |-> Pow2(r) * MIN_INTERVAL]
           ELSE Give(r + 1, XX)
    ELSE IF resp.exc = "" /\ resp.status = 200 /\ resp.body = "success" /\ resp.cc # "missing"
      THEN Give(r, resp.cc)
      ELSE Give(r, XX)

\* Lines 147-191: what one pass of the while body does with the outcome of
\* requests.get, given the value of retries.
HandleResponse(r, resp) ==
  IF resp.exc = "Timeout" THEN
    [op |-> "return", retries |-> r, country_code |-> XX, wait_time |-> 0]
  ELSE IF resp.exc # "" THEN
    [op |-> "return", retries |-> r, country_code |-> XX, wait_time |-> 0]
  ELSE IF resp.status = 429 THEN
    IF r + 1 < MAX_RETRIES THEN
      [op |-> "continue", retries |-> r + 1, country_code |-> "",
       wait_time |-> Pow2(r + 1) * MIN_INTERVAL]
    ELSE
      [op |-> "return", retries |-> r + 1, country_code |-> XX, wait_time |-> 0]
  ELSE IF resp.status # 200 THEN
    [op |-> "return", retries |-> r, country_code |-> XX, wait_time |-> 0]
  ELSE IF resp.body = "empty" THEN
    [op |-> "return", retries |-> r, country_code |-> XX, wait_time |-> 0]
  ELSE IF resp.body = "malformed" THEN
    [op |-> "return", retries |-> r, country_code |-> XX, wait_time |-> 0]
  ELSE IF resp.body = "success" THEN
    [op |-> "return", retries |-> r,
     country_code |-> IF resp.cc = "missing" THEN XX ELSE resp.cc, wait_time |-> 0]
  ELSE
    [op |-> "return", retries |-> r, country_code |-> XX, wait_time |-> 0]

\* --------------------------------------------------- SpecApi: thread level
\* Each task is one call of get_country_code made by a pool thread of
\* batch_process_ips (lines 280-282, 317); the state after construction is
\* the one in which every task has been handed to its thread.

NoCall == [task |-> 0, ip |-> <<>>, resps |-> <<>>, sleeps |-> <<>>, country_code |-> ""]

InitCalls ==
  /\ now = MIN_INTERVAL
  /\ LAST_API_CALL = 0
  /\ tpc = [t \in Tasks |-> "db"]
  /\ ip \in [Tasks -> IPs]
  /\ retries = [t \in Tasks |-> 0]
  /\ current_time = [t \in Tasks |-> 0]
  /\ wakeAt = [t \in Tasks |-> 0]
  /\ country_code = [t \in Tasks |-> ""]
  /\ ncalls = [t \in Tasks |-> 0]
  /\ dbq = [t \in Tasks |-> 0]
  /\ resps = [t \in Tasks |-> <<>>]
  /\ sleeps = [t \in Tasks |-> <<>>]
  /\ returned = NoCall
  /\ lastSent = -1
  /\ minGap = -1

\* A pool thread runs whenever it is scheduled; the main thread makes a call
\* once the call before it has returned.
CanRun(t) == caller = "main" => \A u \in Tasks : u < t => tpc[u] = "done"

\* The return statements of get_country_code: the locals of the call go, its
\* result stays.
Return(t, code, rs, sl) ==
  /\ tpc' = [tpc EXCEPT ![t] = "done"]
  /\ country_code' = [country_code EXCEPT ![t] = code]
  /\ returned' = [task |-> t, ip |-> ip[t], resps |-> rs, sleeps |-> sl,
                  country_code |-> code]
  /\ retries' = [retries EXCEPT ![t] = 0]
  /\ resps' = [resps EXCEPT ![t] = <<>>]
  /\ sleeps' = [sleeps EXCEPT ![t] = <<>>]
  /\ wakeAt' = [wakeAt EXCEPT ![t] = 0]

\* The clock advances; a step of a thread can take any time, and a sleep in
\* progress always comes to its end.
Tick ==
  /\ \/ now < MaxTime
     \/ \E t \in Tasks : tpc[t] \in {"wait_sleep", "backoff"} /\ wakeAt[t] > now
  /\ now' = now + 1
  /\ returned' = NoCall
  /\ UNCHANGED <<pipeVars, normVars, caller, LAST_API_CALL, tpc, ip, retries, current_time, wakeAt,
                 country_code, ncalls, dbq, resps, sleeps, lastSent, minGap>>

\* Lines 132-143.
QueryDb(t) ==
  /\ tpc[t] = "db"
  /\ CanRun(t)
  /\ dbq' = [dbq EXCEPT ![t] = @ + 1]
  /\ LET l == LocalLookup(GeoDb, ip[t]) IN
       IF l.found
         THEN Return(t, l.country_code, resps[t], sleeps[t])
         ELSE IF 0 < MAX_RETRIES
           THEN /\ retries' = [retries EXCEPT ![t] = 0]
                /\ tpc' = [tpc EXCEPT ![t] = "wait_read"]
                /\ returned' = NoCall
                /\ UNCHANGED <<country_code, resps, sleeps, wakeAt>>
           ELSE Return(t, XX, resps[t], sleeps[t])
  /\ UNCHANGED <<pipeVars, normVars, caller, now, LAST_API_CALL, ip, current_time, ncalls, lastSent, minGap>>

\* Line 124.
WaitRead(t) ==
  /\ tpc[t] = "wait_read"
  /\ CanRun(t)
  /\ current_time' = [current_time EXCEPT ![t] = now]
  /\ tpc' = [tpc EXCEPT ![t] = "wait_check"]
  /\ returned' = NoCall
  /\ UNCHANGED <<pipeVars, normVars, caller, now, LAST_API_CALL, ip, retries, wakeAt, country_code, ncalls, dbq,
                 resps, sleeps, lastSent, minGap>>

\* Line 125.
WaitCheck(t) ==
  /\ tpc[t] = "wait_check"
  /\ CanRun(t)
  /\ tpc' = [tpc EXCEPT ![t] = IF current_time[t] - LAST_API_CALL < MIN_INTERVAL
                                 THEN "wait_calc" ELSE "wait_write"]
  /\ returned' = NoCall
  /\ UNCHANGED <<pipeVars, normVars, caller, now, LAST_API_CALL, ip, retries, current_time, wakeAt,
                 country_code, ncalls, dbq, resps, sleeps, lastSent, minGap>>

\* Line 126: the sleep starts.
WaitSleep(t) ==
  /\ tpc[t] = "wait_calc"
  /\ CanRun(t)
  /\ wakeAt' = [wakeAt EXCEPT ![t] = now + (MIN_INTERVAL - (current_time[t] - LAST_API_CALL))]
  /\ tpc' = [tpc EXCEPT ![t] = "wait_sleep"]
  /\ returned' = NoCall
  /\ UNCHANGED <<pipeVars, normVars, caller, now, LAST_API_CALL, ip, retries, current_time,
                 country_code, ncalls, dbq, resps, sleeps, lastSent, minGap>>

\* Line 126: the sleep ends.
WaitWake(t) ==
  /\ tpc[t] = "wait_sleep"
  /\ CanRun(t)
  /\ now >= wakeAt[t]
  /\ wakeAt' = [wakeAt EXCEPT ![t] = 0]
  /\ tpc' = [tpc EXCEPT ![t] = "wait_write"]
  /\ returned' = NoCall
  /\ UNCHANGED <<pipeVars, normVars, caller, now, LAST_API_CALL, ip, retries, current_time,
                 country_code, ncalls, dbq, resps, sleeps, lastSent, minGap>>

\* Line 127 and lines 147-191: the time of the call is recorded, the request
\* is issued at once and its outcome handled.
Send(t, resp) ==
  /\ tpc[t] = "wait_write"
  /\ CanRun(t)
  /\ LAST_API_CALL' = now
  /\ current_time' = [current_time EXCEPT ![t] = 0]
  /\ lastSent' = now
  /\ minGap' = IF lastSent = -1 THEN minGap
               ELSE IF minGap = -1 \/ now - lastSent < minGap THEN now - lastSent
               ELSE minGap
  /\ ncalls' = [ncalls EXCEPT ![t] = @ + 1]
  /\ LET h == HandleResponse(retries[t], resp) IN
       IF h.op = "continue"
         THEN /\ retries' = [retries EXCEPT ![t] = h.retries]
              /\ resps' = [resps EXCEPT ![t] = Append(@, resp)]
              /\ sleeps' = [sleeps EXCEPT ![t] = Append(@, h.wait_time)]
              /\ wakeAt' = [wakeAt EXCEPT ![t] = now + h.wait_time]
              /\ tpc' = [tpc EXCEPT ![t] = "backoff"]
              /\ returned' = NoCall
              /\ UNCHANGED country_code
         ELSE Return(t, h.country_code, Append(resps[t], resp), sleeps[t])
  /\ UNCHANGED <<pipeVars, normVars, caller, now, ip, dbq>>

\* Lines 155-156 and 143: the backoff sleep ends, the loop continues.
BackoffWake(t) ==
  /\ tpc[t] = "backoff"
  /\ CanRun(t)
  /\ now >= wakeAt[t]
  /\ IF retries[t] < MAX_RETRIES
       THEN /\ tpc' = [tpc EXCEPT ![t] = "wait_read"]
            /\ wakeAt' = [wakeAt EXCEPT ![t] = 0]
            /\ returned' = NoCall
            /\ UNCHANGED <<country_code, retries, resps, sleeps>>
       ELSE Return(t, XX, resps[t], sleeps[t])
  /\ UNCHANGED <<pipeVars, normVars, caller, now, LAST_API_CALL, ip, current_time, ncalls, dbq, lastSent, minGap>>

Step(t) ==
  \/ QueryDb(t)
  \/ WaitRead(t)
  \/ WaitCheck(t)
  \/ WaitSleep(t)
  \/ WaitWake(t)
  \/ \E resp \in Responses : Send(t, resp)
  \/ BackoffWake(t)

NextApi ==
  \/ Tick
  \/ \E t \in Tasks : Step(t)

\* ------------------------------------------------------- Spec: run of main

\* A token of a URL list: the text between the brackets, split on the dots.
\* A part is the text of an integer or text that int() rejects.
\* plain: the text is the decimal numeral str(val); a numeral that int() reads
\* but str() does not give back ("01", "+1") is not plain.
Part(n) == [num |-> TRUE, val |-> n, plain |-> TRUE]
Padded(n) == [num |-> TRUE, val |-> n, plain |-> FALSE]
Junk == [num |-> FALSE, val |-> 0, plain |-> FALSE]
Token(br, parts) == [br |-> br, parts |-> parts]
Quad(a, b, c, d) == Token(FALSE, <<Part(a), Part(b), Part(c), Part(d)>>)

UrlTokens == {Quad(1, 1, 1, 1), Quad(1, 1, 1, 300), Quad(1, 1, 2, 44), Quad(1, 1, 255, 300)}

\* The tokens of a URL list longer than the pool is wide: 1.1.1.1 written in
\* four ways, and two tokens that are not addresses.
PoolTokens ==
  {Quad(1, 1, 1, 1), Quad(1, 1, 0, 257),
   Token(TRUE, <<Part(1), Part(1), Part(1), Part(1)>>),
   Token(TRUE, <<Part(1), Part(1), Part(0), Part(257)>>),
   Quad(1, 1, 255, 511),
   Token(FALSE, <<Part(1), Part(1), Part(1)>>)}

AllTokens == UrlTokens \cup PoolTokens

\* The port list of the run (TARGET_PORTS).
PortLists == {<<"443", "8443">>}

\* Addresses that the domains resolve to.
DomainIPs == {<<1, 1, 1, 1>>, <<1, 1, 2, 44>>}

Codes == IsoCodes \cup {XX}

None == <<>>

\* The text of a token without its brackets, as the list of its parts.
Text(tok) == tok.parts

\* The text of an address: str() of each octet, joined by dots.
Str(a) == [i \in 1..Len(a) |-> Part(a[i])]

\* Line 133: reader.country parses the text it is given; the address it
\* denotes, or NotAnAddress when the text is not the text of an IPv4 address
\* (the call then raises ValueError).
NotAnAddress == <<>>
Parse(txt) ==
  IF Len(txt) = 4 /\ \A i \in 1..4 : txt[i].plain /\ 0 <= txt[i].val /\ txt[i].val <= 255
    THEN [i \in 1..4 |-> txt[i].val]
    ELSE NotAnAddress

\* normalize_ip that drops the carry instead of adding it to the third part.
normalize_ip_NoCarry(tok) ==
  LET parts == tok.parts IN
  IF Len(parts) # 4 THEN None
  ELSE IF \E i \in 1..3 : ~parts[i].num \/ ~(0 <= parts[i].val /\ parts[i].val <= 255)
    THEN None
  ELSE IF ~parts[4].num THEN None
  ELSE IF parts[4].val > 255
    THEN IF parts[3].val + (parts[4].val \div 256) > 255 THEN None
         ELSE <<parts[1], parts[2], Part(parts[3].val), Part(parts[4].val % 256)>>
    ELSE parts

\* normalize_ip without the test of line 47.
normalize_ip_NoOverflowCheck(tok) ==
  LET parts == tok.parts IN
  IF Len(parts) # 4 THEN None
  ELSE IF \E i \in 1..3 : ~parts[i].num \/ ~(0 <= parts[i].val /\ parts[i].val <= 255)
    THEN None
  ELSE IF ~parts[4].num THEN None
  ELSE IF parts[4].val > 255
    THEN <<parts[1], parts[2], Part(parts[3].val + (parts[4].val \div 256)),
           Part(parts[4].val % 256)>>
    ELSE parts

\* normalize_ip that writes every part anew as str(int(part)).
normalize_ip_Canonical(tok) ==
  LET parts == tok.parts IN
  IF Len(parts) # 4 THEN None
  ELSE IF \E i \in 1..3 : ~parts[i].num \/ ~(0 <= parts[i].val /\ parts[i].val <= 255)
    THEN None
  ELSE IF ~parts[4].num THEN None
  ELSE IF parts[4].val > 255
    THEN IF parts[3].val + (parts[4].val \div 256) > 255 THEN None
         ELSE <<Part(parts[1].val), Part(parts[2].val),
                Part(parts[3].val + (parts[4].val \div 256)), Part(parts[4].val % 256)>>
    ELSE [i \in 1..4 |-> Part(parts[i].val)]

\* Lines 23-54. The result is the text of line 52, as the list of its parts.
normalize_ip(tok) ==
  LET parts == tok.parts IN
  IF Len(parts) # 4 THEN None
  ELSE IF \E i \in 1..3 : ~parts[i].num \/ ~(0 <= parts[i].val /\ parts[i].val <= 255)
    THEN None
  ELSE IF ~parts[4].num THEN None
  ELSE LET last_num == parts[4].val IN
    IF last_num > 255
      THEN LET carry == last_num \div 256
               remainder == last_num % 256
               third == parts[3].val + carry
           IN IF third > 255 THEN None
              ELSE <<parts[1], parts[2], Part(third), Part(remainder)>>
      ELSE parts

\* Lines 56-82.
is_valid_ip(tok) ==
  LET parts == tok.parts IN
  IF Len(parts) # 4 THEN FALSE
  ELSE IF \E i \in 1..3 : ~parts[i].num \/ ~(0 <= parts[i].val /\ parts[i].val <= 255)
    THEN FALSE
  ELSE IF ~parts[4].num THEN FALSE
  ELSE IF parts[4].val <= 255 THEN TRUE
  ELSE normalize_ip(tok) # None

\* What the API answers to the successive requests of one call: a request
\* follows only a 429, and there are at most MAX_RETRIES requests.
RECURSIVE RespSeqsFrom(_)
RespSeqsFrom(k) ==
  IF k >= MAX_RETRIES THEN {<<r>> : r \in Responses}
  ELSE {<<r>> : r \in Responses \ {R429}} \cup {<<R429>> \o rs : rs \in RespSeqsFrom(k + 1)}

RespSeqs == RespSeqsFrom(1)

\* Lines 142-193: the while loop, run to completion on the answers rs.
RECURSIVE OnlineQuery(_, _)
OnlineQuery(r, rs) ==
  IF r < MAX_RETRIES /\ rs # <<>>
    THEN LET h == HandleResponse(r, Head(rs)) IN
         IF h.op = "continue" THEN OnlineQuery(h.retries, Tail(rs)) ELSE h.country_code
    ELSE XX

\* Lines 129-193, run to completion.
get_country_code(a, rs) ==
  LET l == LocalLookup(GeoDb, Parse(a)) IN
  IF l.found THEN l.country_code ELSE OnlineQuery(0, rs)

\* ResultLines that goes through the ports from the last to the first.
ResultLines_Reversed(a, pts, code) == [i \in 1..Len(pts) |-> <<a, pts[Len(pts) + 1 - i], code>>]

\* Lines 236-238 and 320-322: one line per port, in the order of the ports.
ResultLines(a, pts, code) == [i \in 1..Len(pts) |-> <<a, pts[i], code>>]

\* Lines 302-331. fault: an exception is raised by the call at line 317.
process_single_ip(tok, pts, rs, fault) ==
  IF ~is_valid_ip(tok) THEN [results |-> <<>>, country_code |-> ""]
  ELSE LET n == normalize_ip(tok)
           normalized_ip == IF n # None THEN n ELSE Text(tok)
       IN IF fault THEN [results |-> <<>>, country_code |-> ""]
          ELSE LET code == get_country_code(normalized_ip, rs) IN
               [results |-> ResultLines(normalized_ip, pts, code), country_code |-> code]

\* Lines 242-244 and 293-296: the lines of one country, in order.
Group(res, c) == LET OfCountry(l) == l[3] = c IN SelectSeq(res, OfCountry)

\* WriteShards that writes the unknown country like any other.
WriteShards_NoSkip(fs, res, mode) ==
  [c \in Codes |->
     IF Group(res, c) = <<>> THEN fs[c]
     ELSE IF mode = "a" THEN fs[c] \o Group(res, c) ELSE Group(res, c)]

\* WriteShards that appends whatever the mode.
WriteShards_Append(fs, res, mode) ==
  [c \in Codes |->
     IF c = XX \/ Group(res, c) = <<>> THEN fs[c] ELSE fs[c] \o Group(res, c)]

\* Lines 258-265 (mode "a") and 380-387 (mode "w").
WriteShards(fs, res, mode) ==
  [c \in Codes |->
     IF c = XX \/ Group(res, c) = <<>> THEN fs[c]
     ELSE IF mode = "a" THEN fs[c] \o Group(res, c) ELSE Group(res, c)]

\* Collect that drops what it has when an address gives nothing.
Collect_AbortOnEmpty(res, ip_results) == IF ip_results # <<>> THEN res \o ip_results ELSE <<>>

\* Lines 288-296: the body of the as_completed loop.
Collect(res, ip_results) == IF ip_results # <<>> THEN res \o ip_results ELSE res

\* BatchFinished that is satisfied by the first address done.
BatchFinished_Any == \E t \in all_ips : tstate[t] = "done"

\* Lines 280-300: the with block ends when every future is done.
BatchFinished == \A t \in all_ips : tstate[t] = "done"

\* WriteCombined that writes the file whatever was collected.
WriteCombined_Always(old, res) == res

\* Lines 447-450.
WriteCombined(old, res) == IF res # <<>> THEN res ELSE old

\* A line left by an earlier run.
StaleLine(c) == <<Str(<<9, 9, 9, 9>>), "443", c>>
Fresh == [shards |-> [c \in Codes |-> <<>>], ipTxt |-> <<>>]
Stale == [shards |-> [c \in Codes |-> IF c = XX THEN <<>> ELSE <<StaleLine(c)>>],
          ipTxt |-> <<StaleLine("US"), StaleLine(XX)>>]

SeqsUpTo(S, n) == UNION {[1..k -> S] : k \in 0..n}

InitRun ==
  /\ has_domain \in BOOLEAN
  /\ domain_ips \in IF has_domain THEN SeqsUpTo(DomainIPs, MaxDomainIps) ELSE {<<>>}
  /\ has_urls \in BOOLEAN
  /\ all_ips \in IF has_urls THEN {S \in SUBSET UrlTokens : Cardinality(S) <= MaxUrlIps}
                 ELSE {{}}
  /\ ports \in PortLists
  /\ files0 \in {Fresh, Stale}
  /\ files = files0.shards
  /\ ipTxt = files0.ipTxt
  /\ mpc = "domain"
  /\ d_results = <<>>
  /\ tstate = [t \in AllTokens |-> "none"]
  /\ tcode = [t \in AllTokens |-> ""]
  /\ results = <<>>
  /\ all_results = <<>>

\* Lines 435-440: TARGET_DOMAIN is not set.
DomainSkip ==
  /\ mpc = "domain"
  /\ ~has_domain
  /\ mpc' = "url"
  /\ UNCHANGED <<apiVars, normVars>>
  /\ UNCHANGED <<has_domain, domain_ips, has_urls, all_ips, ports, files, ipTxt,
                 files0, d_results, tstate, tcode, results, all_results>>

\* Lines 234-244: one address of a domain; the API answers rs.
DomainResolve ==
  /\ mpc = "domain"
  /\ has_domain
  /\ domain_ips # <<>>
  /\ \E code \in {get_country_code(Str(Head(domain_ips)), rs) : rs \in RespSeqs} :
       d_results' = d_results \o ResultLines(Str(Head(domain_ips)), ports, code)
  /\ domain_ips' = Tail(domain_ips)
  /\ UNCHANGED <<apiVars, normVars>>
  /\ UNCHANGED <<has_domain, has_urls, all_ips, ports, mpc, files, ipTxt,
                 files0, tstate, tcode, results, all_results>>

\* Lines 253-268 and 439-440.
DomainFlush ==
  /\ mpc = "domain"
  /\ has_domain
  /\ domain_ips = <<>>
  /\ files' = WriteShards(files, d_results, "a")
  /\ all_results' = all_results \o d_results
  /\ mpc' = "url"
  /\ UNCHANGED <<apiVars, normVars>>
  /\ UNCHANGED <<has_domain, domain_ips, has_urls, all_ips, ports, ipTxt,
                 files0, d_results, tstate, tcode, results>>

\* Lines 337-346 and 443-444: TARGET_URLS is not set.
UrlSkip ==
  /\ mpc = "url"
  /\ ~has_urls
  /\ mpc' = "combined"
  /\ UNCHANGED <<apiVars, normVars>>
  /\ UNCHANGED <<has_domain, domain_ips, has_urls, all_ips, ports, files, ipTxt,
                 files0, d_results, tstate, tcode, results, all_results>>

\* Lines 373 and 276-282: every address is submitted to the pool.
Submit ==
  /\ mpc = "url"
  /\ has_urls
  /\ tstate' = [t \in AllTokens |-> IF t \in all_ips THEN "queued" ELSE "none"]
  /\ mpc' = "batch"
  /\ UNCHANGED <<apiVars, normVars>>
  /\ UNCHANGED <<has_domain, domain_ips, has_urls, all_ips, ports, files, ipTxt,
                 files0, d_results, tcode, results, all_results>>

RunningTasks == {t \in all_ips : tstate[t] = "running"}

\* StartTask with a thread for every task.
StartTask_NoCap(t) ==
  /\ mpc = "batch"
  /\ tstate[t] = "queued"
  /\ tstate' = [tstate EXCEPT ![t] = "running"]
  /\ UNCHANGED <<apiVars, normVars>>
  /\ UNCHANGED <<has_domain, domain_ips, has_urls, all_ips, ports, mpc, files, ipTxt,
                 files0, d_results, tcode, results, all_results>>

\* Line 280: a thread of the pool takes the task.
StartTask(t) ==
  /\ mpc = "batch"
  /\ tstate[t] = "queued"
  /\ Cardinality(RunningTasks) < MAX_WORKERS
  /\ tstate' = [tstate EXCEPT ![t] = "running"]
  /\ UNCHANGED <<apiVars, normVars>>
  /\ UNCHANGED <<has_domain, domain_ips, has_urls, all_ips, ports, mpc, files, ipTxt,
                 files0, d_results, tcode, results, all_results>>

\* Lines 302-331 and 285-298: the task returns and its future is handled; the
\* API answers rs, and the call of line 317 may raise.
CompleteTask(t) ==
  /\ mpc = "batch"
  /\ tstate[t] = "running"
  /\ \E r \in {process_single_ip(t, ports, rs, fault) : rs \in RespSeqs, fault \in BOOLEAN} :
       /\ tcode' = [tcode EXCEPT ![t] = r.country_code]
       /\ results' = Collect(results, r.results)
  /\ tstate' = [tstate EXCEPT ![t] = "done"]
  /\ UNCHANGED <<apiVars, normVars>>
  /\ UNCHANGED <<has_domain, domain_ips, has_urls, all_ips, ports, mpc, files, ipTxt,
                 files0, d_results, all_results>>

\* Lines 300, 375-390 and 443-444.
UrlFlush ==
  /\ mpc = "batch"
  /\ BatchFinished
  /\ files' = WriteShards(files, results, "w")
  /\ all_results' = all_results \o results
  /\ mpc' = "combined"
  /\ UNCHANGED <<apiVars, normVars>>
  /\ UNCHANGED <<has_domain, domain_ips, has_urls, all_ips, ports, ipTxt,
                 files0, d_results, tstate, tcode, results>>

\* Lines 446-456.
Combined ==
  /\ mpc = "combined"
  /\ ipTxt' = WriteCombined(ipTxt, all_results)
  /\ mpc' = "done"
  /\ UNCHANGED <<apiVars, normVars>>
  /\ UNCHANGED <<has_domain, domain_ips, has_urls, all_ips, ports, files,
                 files0, d_results, tstate, tcode, results, all_results>>

\* No token is being looked at on its own.
NormIdle ==
  /\ n_ip = Token(FALSE, <<>>)
  /\ npc = "done"
  /\ n_normalized = None
  /\ n_valid = FALSE
  /\ n_results = <<>>

\* No call of SpecApi is in progress in a run of main, and no run in SpecApi.
CallsIdle ==
  /\ caller = "main"
  /\ now = 0 /\ LAST_API_CALL = 0
  /\ tpc = [t \in Tasks |-> "done"]
  /\ ip = [t \in Tasks |-> <<>>]
  /\ retries = [t \in Tasks |-> 0]
  /\ current_time = [t \in Tasks |-> 0]
  /\ wakeAt = [t \in Tasks |-> 0]
  /\ country_code = [t \in Tasks |-> ""]
  /\ ncalls = [t \in Tasks |-> 0]
  /\ dbq = [t \in Tasks |-> 0]
  /\ resps = [t \in Tasks |-> <<>>]
  /\ sleeps = [t \in Tasks |-> <<>>]
  /\ returned = NoCall
  /\ lastSent = -1
  /\ minGap = -1

Init == InitRun /\ CallsIdle /\ NormIdle

Next ==
  \/ DomainSkip
  \/ DomainResolve
  \/ DomainFlush
  \/ UrlSkip
  \/ Submit
  \/ \E t \in AllTokens : StartTask(t)
  \/ \E t \in AllTokens : CompleteTask(t)
  \/ UrlFlush
  \/ Combined

Spec == Init /\ [][Next]_vars

\* No run of main is in progress while the calls are looked at on their own.
RunIdle ==
  /\ has_domain = FALSE /\ domain_ips = <<>>
  /\ has_urls = FALSE /\ all_ips = {}
  /\ ports \in PortLists
  /\ mpc = "done"
  /\ files = Fresh.shards /\ ipTxt = <<>> /\ files0 = Fresh
  /\ d_results = <<>> /\ results = <<>> /\ all_results = <<>>
  /\ tstate = [t \in AllTokens |-> "none"]
  /\ tcode = [t \in AllTokens |-> ""]

\* The pool threads of batch_process_ips run their calls concurrently.
InitApi == caller = "pool" /\ InitCalls /\ RunIdle /\ NormIdle

\* The calls of resolve_domain (lines 234-235) are made one after the other
\* by the main thread.
InitSeq == caller = "main" /\ InitCalls /\ RunIdle /\ NormIdle

SpecApi == InitApi /\ [][NextApi]_vars

SpecSeq == InitSeq /\ [][NextApi]_vars

\* Time passes and the thread that makes the calls is never stopped for good.
FairSeq == SpecSeq /\ WF_vars(Tick) /\ \A t \in Tasks : WF_vars(Step(t))

\* ------------------------------------------- FairPool: a batch wider than the pool

\* A run without domains whose URL lists give more than MAX_WORKERS tokens.
InitPool ==
  /\ has_domain = FALSE
  /\ domain_ips = <<>>
  /\ has_urls = TRUE
  /\ all_ips \in {S \in SUBSET PoolTokens : Cardinality(S) > MAX_WORKERS}
  /\ ports \in PortLists
  /\ files0 = Fresh
  /\ files = files0.shards
  /\ ipTxt = files0.ipTxt
  /\ mpc = "domain"
  /\ d_results = <<>>
  /\ tstate = [t \in AllTokens |-> "none"]
  /\ tcode = [t \in AllTokens |-> ""]
  /\ results = <<>>
  /\ all_results = <<>>
  /\ CallsIdle
  /\ NormIdle

NextPool ==
  \/ DomainSkip
  \/ Submit
  \/ \E t \in AllTokens : StartTask(t)
  \/ \E t \in AllTokens : CompleteTask(t)
  \/ UrlFlush
  \/ Combined

\* The threads of the pool and the main thread are never stopped for good.
FairPool == InitPool /\ [][NextPool]_vars /\ WF_vars(NextPool)

\* ------------------------------------- SpecNorm: one token, function by function

\* The parts a token is made of: numerals in and out of the range of an octet,
\* a numeral that is not the str() of its value, text that int() rejects.
FirstParts == {Part(-1), Part(1), Part(255), Part(256), Padded(1), Junk}
ThirdParts == FirstParts \cup {Part(254)}
LastParts == {Part(-5), Part(0), Part(255), Part(256), Part(300), Part(511), Part(512),
              Part(767), Padded(7), Junk}

NormTokens ==
  {Token(br, <<a, b, c, d>>) :
     br \in BOOLEAN, a \in FirstParts, b \in {Part(1), Padded(1)}, c \in ThirdParts,
     d \in LastParts}
  \cup {Token(FALSE, <<Part(1), Part(1), Part(1)>>),
        Token(FALSE, <<Part(1), Part(1), Part(1), Part(1), Part(1)>>)}

InitNorm ==
  /\ n_ip \in NormTokens
  /\ npc = "normalize_ip"
  /\ n_normalized = None
  /\ n_valid = FALSE
  /\ n_results = <<>>
  /\ CallsIdle
  /\ RunIdle

\* Lines 23-54, called on the token.
CallNormalize ==
  /\ npc = "normalize_ip"
  /\ n_normalized' = normalize_ip(n_ip)
  /\ npc' = "is_valid_ip"
  /\ UNCHANGED <<apiVars, pipeVars, n_ip, n_valid, n_results>>

\* Lines 56-82, called on the token.
CallIsValid ==
  /\ npc = "is_valid_ip"
  /\ n_valid' = is_valid_ip(n_ip)
  /\ npc' = "process_single_ip"
  /\ UNCHANGED <<apiVars, pipeVars, n_ip, n_normalized, n_results>>

\* Lines 302-331, called on the token; the API answers rs, and the call of
\* line 317 may raise.
CallProcess ==
  /\ npc = "process_single_ip"
  /\ \E r \in {process_single_ip(n_ip, ports, rs, fault) : rs \in RespSeqs, fault \in BOOLEAN} :
       n_results' = r.results
  /\ npc' = "done"
  /\ UNCHANGED <<apiVars, pipeVars, n_ip, n_normalized, n_valid>>

NextNorm ==
  \/ CallNormalize
  \/ CallIsValid
  \/ CallProcess

SpecNorm == InitNorm /\ [][NextNorm]_vars

\* ----------------------------------------------------------------- claims

Done(t) == tpc[t] = "done"
All429(rs) == rs # <<>> /\ \A i \in DOMAIN rs : rs[i] = R429
NonRateLimitFailures == {RTimeout, RConnError, R500, REmpty, RMalformed, RFail}

\* C1: under every interleaving of the pool workers, any two online requests
\* are separated by at least MIN_INTERVAL.
C1_MinIntervalBetweenRequests == minGap = -1 \/ minGap >= MIN_INTERVAL

C3_ThreeCallsOn429 ==
  (returned # NoCall /\ All429(returned.resps))
    => (returned.country_code = XX /\ Len(returned.resps) = MAX_RETRIES + 1)

\* C3 amended: when every online attempt is answered 429, the call returns XX
\* after exactly MAX_RETRIES online calls (2: the first call and one retry,
\* with one backoff sleep between them), and it has ended.
C3_MaxRetriesCallsOn429 ==
  (returned # NoCall /\ All429(returned.resps))
    => /\ returned.country_code = XX
       /\ Len(returned.resps) = MAX_RETRIES
       /\ Len(returned.sleeps) = MAX_RETRIES - 1
       /\ ncalls[returned.task] = MAX_RETRIES
       /\ Done(returned.task)

C3_Witness == returned # NoCall /\ returned.resps = <<R429, R429>>

\* C4: an online attempt that ends in anything but a 429 or a success ends the
\* call with XX: no backoff sleep and no further attempt follow it, so a call
\* that is still running has seen nothing but 429.
C4_FailureEndsCall ==
  /\ \A t \in Tasks : ~Done(t) => \A i \in DOMAIN resps[t] : resps[t][i] = R429
  /\ (returned # NoCall /\ returned.resps # <<>>
        /\ returned.resps[Len(returned.resps)] \in NonRateLimitFailures)
       => /\ returned.country_code = XX
          /\ Done(returned.task)
          /\ Len(returned.sleeps) = Len(returned.resps) - 1
          /\ ncalls[returned.task] = Len(returned.resps)

C4_Witness ==
  /\ returned # NoCall
  /\ Len(returned.resps) = 1
  /\ returned.resps[1] \in NonRateLimitFailures
  /\ Len(returned.resps) < MAX_RETRIES

\* C5: every call queries the database exactly once, before any online
\* request; a code found there is returned without any online request, and an
\* online request is made only when the database gave no code.
C5_DatabaseOnceAndFirst ==
  \A t \in Tasks :
    /\ dbq[t] = IF tpc[t] = "db" THEN 0 ELSE 1
    /\ ncalls[t] > 0 => (dbq[t] = 1 /\ GeoDb[ip[t]] \notin IsoCodes)
    /\ (GeoDb[ip[t]] \in IsoCodes /\ tpc[t] # "db")
         => (Done(t) /\ country_code[t] = GeoDb[ip[t]] /\ ncalls[t] = 0)

C5_Witness ==
  \E t, u \in Tasks :
    /\ Done(t) /\ GeoDb[ip[t]] \in IsoCodes /\ country_code[t] = GeoDb[ip[t]]
    /\ Done(u) /\ ncalls[u] = MAX_RETRIES /\ dbq[u] = 1

RunLines == d_results \o results
InFile(l, f) == \E i \in DOMAIN f : f[i] = l
Count(f, l) == Cardinality({i \in DOMAIN f : f[i] = l})
DoneTokens == {t \in all_ips : tstate[t] = "done"}
UrlPathRan == has_urls /\ mpc \in {"combined", "done"}

\* C6: no line of an address resolved to XX is in any per-country file, no
\* xx.txt is written, and after the run every such line is in ip.txt.
C6_UnknownOnlyInCombined ==
  /\ files[XX] = <<>>
  /\ \A c \in Codes : \A i \in DOMAIN files[c] : files[c][i][3] # XX
  /\ mpc = "done" =>
       \A i \in DOMAIN RunLines : RunLines[i][3] = XX => InFile(RunLines[i], ipTxt)

C6_Witness ==
  /\ mpc = "done"
  /\ \E i \in DOMAIN d_results : d_results[i][3] = XX
  /\ \E i \in DOMAIN results : results[i][3] = XX /\ InFile(results[i], ipTxt)

\* The lines an address gives when it is processed alone: none when it is
\* rejected or when its resolution raised, else one per port with its code.
Expected(t) ==
  IF ~is_valid_ip(t) \/ tcode[t] = "" THEN <<>>
  ELSE [i \in 1..Len(ports) |-> <<normalize_ip(t), ports[i], tcode[t]>>]

RECURSIVE ExpectedCount(_, _)
ExpectedCount(S, l) ==
  IF S = {} THEN 0
  ELSE LET t == CHOOSE x \in S : TRUE IN Count(Expected(t), l) + ExpectedCount(S \ {t}, l)

Range(f) == {f[i] : i \in DOMAIN f}

\* C7: at every moment of a batch, whatever the order of completion, the
\* result holds exactly the lines of the addresses done that did not fail, and
\* no line of one that failed; a failure does not keep the batch from ending
\* with every address done.
C7_FailureIsolated ==
  /\ \A l \in Range(results) \cup UNION {Range(Expected(t)) : t \in DoneTokens} :
       Count(results, l) = ExpectedCount(DoneTokens, l)
  /\ UrlPathRan => DoneTokens = all_ips

C7_Witness ==
  /\ mpc = "done"
  /\ \E t \in all_ips : ~is_valid_ip(t)
  /\ \E t \in all_ips : is_valid_ip(t) /\ tcode[t] = ""
  /\ \E t \in all_ips : tcode[t] # "" /\ InFile(Expected(t)[1], results)

C10_CombinedIsRunLines == mpc = "done" => ipTxt = RunLines

\* C10 amended: after a run that collected at least one line, ip.txt holds
\* exactly the lines collected from the domain path and the URL path, XX lines
\* included, in place of what it held; after a run that collected none, ip.txt
\* is not written and holds what it held before.
C10_CombinedWrittenIfAny ==
  mpc = "done" => ipTxt = IF RunLines # <<>> THEN RunLines ELSE files0.ipTxt

C10_Witness ==
  /\ mpc = "done" /\ files0 = Stale
  /\ d_results # <<>> /\ results # <<>>
  /\ \E i \in DOMAIN RunLines : RunLines[i][3] = XX
  /\ ipTxt = RunLines

Resolved == {t \in DoneTokens : tcode[t] # ""}

\* C11 as stated: no two resolutions are made for one normalized address,
\* whether it comes from two tokens of the URL lists or from a domain and a
\* token, and no line occurs twice in the results of the run.
C11_OncePerNormalizedAddress ==
  /\ \A t, u \in Resolved : t # u => normalize_ip(t) # normalize_ip(u)
  /\ \A t \in Resolved : \A i \in DOMAIN d_results : d_results[i][1] # normalize_ip(t)
  /\ \A i, j \in DOMAIN RunLines : i # j => RunLines[i] # RunLines[j]

\* C16: the results of a batch are the lines of the addresses accepted and
\* resolved, one per port: the lines of one address stand together in the
\* order of the ports, with its normalized text and one country code; after
\* the batch every line of a known country is in the file of that country.
C16_LinePerPortInShard ==
  /\ Len(results) = Len(ports) * Cardinality(Resolved)
  /\ \A t \in Resolved :
       \E k \in 0..(Len(results) - Len(ports)) :
         \A i \in 1..Len(ports) : results[k + i] = <<normalize_ip(t), ports[i], tcode[t]>>
  /\ UrlPathRan =>
       \A i \in DOMAIN results :
         results[i][3] # XX => InFile(results[i], files[results[i][3]])

C16_Witness ==
  /\ mpc = "done" /\ Len(ports) = 2
  /\ tcode[Quad(1, 1, 1, 300)] = "CN" /\ tcode[Quad(1, 1, 1, 1)] = "US"
  /\ InFile(<<Str(<<1, 1, 2, 44>>), ports[2], "CN">>, files["CN"])
  /\ InFile(<<Str(<<1, 1, 1, 1>>), ports[1], "US">>, files["US"])

\* C20 as stated: at the end of main every line of ip.txt with a known country
\* is in the file of that country.
C20_CombinedLinesInShards ==
  mpc = "done" =>
    \A i \in DOMAIN ipTxt : ipTxt[i][3] # XX => InFile(ipTxt[i], files[ipTxt[i][3]])

\* C17: a call makes at most MAX_RETRIES online requests; it sleeps for a
\* backoff only when a request is still to follow and has slept once less
\* than it has made requests when it returns; and every call comes to its
\* end, returning a country code or XX.
C17_RetryMachineBounded ==
  /\ [](\A t \in Tasks :
          /\ ncalls[t] <= MAX_RETRIES
          /\ tpc[t] = "backoff" =>
               (ncalls[t] < MAX_RETRIES /\ retries[t] < MAX_RETRIES
                  /\ Len(sleeps[t]) = Len(resps[t])))
  /\ []((returned # NoCall /\ returned.resps # <<>>) =>
          /\ Len(returned.sleeps) = Len(returned.resps) - 1
          /\ returned.country_code \in Codes)
  /\ \A t \in Tasks : <>[](Done(t) /\ country_code[t] \in Codes)

C17_Witness ==
  /\ \A t \in Tasks : Done(t)
  /\ \E t \in Tasks : ncalls[t] = MAX_RETRIES /\ country_code[t] = XX
  /\ \E t \in Tasks : ncalls[t] = MAX_RETRIES /\ country_code[t] \in IsoCodes

AllSleeps == {sleeps[t] : t \in Tasks} \cup {returned.sleeps}

\* C18 as stated: the wait before the k-th retry is MIN_INTERVAL * 2^(k-1).
C18_WaitFromIndexZero ==
  \A sl \in AllSleeps : \A k \in DOMAIN sl : sl[k] = MIN_INTERVAL * Pow2(k - 1)

\* C18 amended: retries is incremented before the wait is computed, so the
\* wait before the k-th retry is MIN_INTERVAL * 2^k (2 for the first), and a
\* call sleeps for at most MAX_RETRIES - 1 backoffs (one).
C18_WaitFromIndexOne ==
  \A sl \in AllSleeps :
    /\ Len(sl) <= MAX_RETRIES - 1
    /\ \A k \in DOMAIN sl : sl[k] = MIN_INTERVAL * Pow2(k)

C18_Witness ==
  /\ returned # NoCall
  /\ Len(returned.resps) = 2
  /\ returned.sleeps = <<2 * MIN_INTERVAL>>

\* C19: never more than MAX_WORKERS addresses are being processed; an address
\* is taken from the queue only while fewer than MAX_WORKERS are being
\* processed; an address goes from queued to running to done and never back;
\* and the batch ends with every submitted address done.
C19_AtMostMaxWorkers ==
  /\ [](Cardinality(RunningTasks) <= MAX_WORKERS)
  /\ [][\A t \in all_ips :
          /\ (tstate[t] = "queued" /\ tstate'[t] # "queued") =>
               (tstate'[t] = "running" /\ Cardinality(RunningTasks) < MAX_WORKERS)
          /\ (tstate[t] = "running" /\ tstate'[t] # "running") => tstate'[t] = "done"
          /\ tstate[t] = "done" => tstate'[t] = "done"]_vars
  /\ <>[](mpc = "done" /\ DoneTokens = all_ips)

C19_Witness ==
  /\ Cardinality(RunningTasks) = MAX_WORKERS
  /\ \E t \in all_ips : tstate[t] = "queued" /\ is_valid_ip(t)

\* The parts of the token are four numerals, the first three in [0,255].
FourNumerals(p) ==
  /\ Len(p) = 4
  /\ \A i \in 1..4 : p[i].num
  /\ \A i \in 1..3 : 0 <= p[i].val /\ p[i].val <= 255

Normalized == npc # "normalize_ip"
Validated == npc \in {"process_single_ip", "done"}
Processed == npc = "done"

\* C12 as stated: the text returned for an accepted token has four octets, all
\* in [0,255]; a token is accepted by is_valid_ip exactly when normalize_ip
\* returns a text.
C12_AcceptedOctetsInRange ==
  /\ (Normalized /\ n_normalized # None) =>
       /\ Len(n_normalized) = 4
       /\ \A i \in 1..4 : /\ n_normalized[i].num
                           /\ 0 <= n_normalized[i].val /\ n_normalized[i].val <= 255
  /\ Validated => (n_valid <=> n_normalized # None)

\* C13: a token of four numerals, the first three in [0,255], whose fourth
\* value v has 255 < v < 512 and whose third value plus v \div 256 is at most
\* 255 is normalized to the text with the first two parts unchanged, the
\* third value plus v \div 256 as third octet and v % 256 as fourth octet.
C13_CarryIntoThird ==
  LET p == n_ip.parts IN
  (/\ Normalized
   /\ FourNumerals(p)
   /\ 255 < p[4].val /\ p[4].val < 512
   /\ p[3].val + (p[4].val \div 256) <= 255)
    => n_normalized = <<p[1], p[2], Part(p[3].val + (p[4].val \div 256)), Part(p[4].val % 256)>>

C13_Witness ==
  /\ Processed
  /\ n_ip = Quad(1, 1, 1, 300)
  /\ n_normalized = Str(<<1, 1, 2, 44>>)

\* C14: a token of four parts whose fourth value exceeds 255 and whose third
\* value plus the carry exceeds 255 is rejected: normalize_ip returns None,
\* is_valid_ip returns False and process_single_ip returns no line.
C14_OverflowRejected ==
  LET p == n_ip.parts IN
  (/\ Len(p) = 4 /\ p[3].num /\ p[4].num
   /\ p[4].val > 255
   /\ p[3].val + (p[4].val \div 256) > 255)
    => /\ Normalized => n_normalized = None
       /\ Validated => ~n_valid
       /\ Processed => n_results = <<>>

C14_Witness ==
  /\ Processed
  /\ n_ip = Token(FALSE, <<Part(1), Part(1), Part(255), Part(300)>>)
  /\ n_normalized = None /\ ~n_valid /\ n_results = <<>>

\* C15: a token without brackets made of four numerals in [0,255] is returned
\* by normalize_ip as it is, part by part, and is_valid_ip accepts it.
C15_ValidUnchanged ==
  LET p == n_ip.parts IN
  (/\ ~n_ip.br
   /\ FourNumerals(p)
   /\ 0 <= p[4].val /\ p[4].val <= 255)
    => /\ Normalized => n_normalized = p
       /\ Validated => n_valid

C15_Witness ==
  /\ Processed
  /\ n_ip = Token(FALSE, <<Padded(1), Part(1), Part(255), Part(255)>>)
  /\ n_normalized = n_ip.parts /\ n_valid
====
